---- MODULE Spec2Model ----
(***************************************************************************)
(* Model of the data_spaces repository.                                    *)
(*                                                                         *)
(*   src/generate_data.py               the dataset synthesizer            *)
(*   src/mobility-semantic/generate_ttl.py   the semantic mapper           *)
(*                                                                         *)
(* Numbers with decimals are kept in fixed point: speeds in 1/1000 km/h    *)
(* before rounding and in 1/10 km/h after round(x, 1); volumes in 1/1000   *)
(* vehicle before int(); occupancy in 1/100000 before rounding and in      *)
(* 1/100 after round(x, 2).  Times are minutes after midnight of           *)
(* 2025-03-10.                                                             *)
(*                                                                         *)
(* Python's random module is a seeded deterministic generator.  It is      *)
(* modelled as a linear congruential generator whose parameters are        *)
(* picked by the variable stream, so every behaviour is one outcome of     *)
(* the random draws and the streams together are the outcomes checked.     *)
(***************************************************************************)
EXTENDS Integers, Sequences, FiniteSets, TLC

\* ------------------------------------------------------------------------
\* Bounds of the model
\* ------------------------------------------------------------------------
NumStreams == 6
MaxRows == 2

\* ------------------------------------------------------------------------
\* Global config of generate_data.py
\* ------------------------------------------------------------------------
SEED == 42
NumZones == 8
\* f"Z{i}", f"L{i}": a prefix and a number printed without padding
Name(prefix, n) == <<prefix, n>>

\* f"{n:02d}": a number printed with two digits at least
TwoDigits(n) == IF n < 100 THEN <<n \div 10, n % 10>> ELSE <<n \div 100, (n \div 10) % 10, n % 10>>

ZONES == [n \in 1..NumZones |-> Name("Z", n)]

\* ZONE_TO_AREA_CODE[ZONES[idx]], Z1 -> A01
AreaCodeOf(idx) == <<"A">> \o TwoDigits(idx)

\* f"ServiceZone-{z[0]}" in place of f"ServiceZone-{z}"
ServiceZoneOfFirstChar(z) == <<"ServiceZone-", z[1]>>

\* ZONE_TO_SERVICE_ZONE[z], Z1 -> ServiceZone-Z1
ServiceZoneOf(z) == <<"ServiceZone-">> \o z

ZONE_TO_AREA_CODE == [z \in {ZONES[n] : n \in 1..NumZones} |-> AreaCodeOf(CHOOSE n \in 1..NumZones : ZONES[n] = z)]

ZONE_TO_SERVICE_ZONE == [z \in {ZONES[n] : n \in 1..NumZones} |-> ServiceZoneOf(z)]

TRAFFIC_START == 420
TRAFFIC_END == 760
TRAFFIC_STEP_MIN == 5
TRAFFIC_MISSING_RATE == 3
TRAFFIC_OUTLIER_RATE == 1

BUS_COUNT == 15
BUS_POINTS_PER_BUS == 120
BUS_TIME_STEP_SEC == 60
BUS_MISSING_DELAY_RATE == 2

PLANNING_LINES == 180

\* ------------------------------------------------------------------------
\* The random module
\* ------------------------------------------------------------------------
RngMod == 2^16

Streams == 0..(NumStreams - 1)

\* the generator state that seeding with a gives
Seed(a) == (a * 40503 + 977) % RngMod

\* the call of random.seed left out: the state stays what it was
RandomSeedMissing(x, a) == x

\* random.seed(a) called in state x: the state is a function of a alone
RandomSeed(x, a) == Seed(a)

\* one step of the generator of stream s
Advance(s, x) == (((8 * s + 5) * 4 + 1) * x + (2 * 37 * s + 12345)) % RngMod

\* n steps of the generator
RECURSIVE AdvanceBy(_, _, _)
AdvanceBy(s, x, n) == IF n = 0 THEN x ELSE AdvanceBy(s, Advance(s, x), n - 1)

\* random.random() < p/q
RandomLess(x, p, q) == x * q < p * RngMod

\* random.uniform(lo, hi) == lo + (hi - lo) * random(), in the unit of lo, hi
Uniform(x, lo, hi) == lo + ((hi - lo) * x) \div RngMod

\* random._randbelow(n)
RandBelow(x, n) == (x * n) \div RngMod

\* random.randint(a, b)
RandInt(x, a, b) == a + RandBelow(x, b - a + 1)

\* random.choice(seq)
Choice(x, seq) == seq[RandBelow(x, Len(seq)) + 1]

\* range(n) as a list
Range(n) == [j \in 1..n |-> j - 1]

\* random.sample(population, k): k draws without replacement.  Returns the
\* sample as a list and the generator state after it.  A draw that hits a
\* position taken before is repeated.
RECURSIVE SampleLoop(_, _, _, _, _, _)
SampleLoop(s, x, population, k, selected, result) ==
  IF Len(result) = k THEN [result |-> result, rng |-> x]
  ELSE LET j == RandBelow(x, Len(population))
       IN IF j \in selected
          THEN SampleLoop(s, Advance(s, x), population, k, selected, result)
          ELSE SampleLoop(s, Advance(s, x), population, k, selected \cup {j},
                          Append(result, population[j + 1]))

Sample(s, x, population, k) == SampleLoop(s, x, population, k, {}, <<>>)

\* ------------------------------------------------------------------------
\* Helpers of generate_data.py
\* ------------------------------------------------------------------------
Max(a, b) == IF a >= b THEN a ELSE b
Min(a, b) == IF a <= b THEN a ELSE b

clamp(x, lo, hi) == Max(lo, Min(hi, x))

\* round(x, n) of a non-negative fixed-point number: to the nearest multiple
\* of unit, counted in units
Round(x, unit) == (x + unit \div 2) \div unit

RECURSIVE dt_range(_, _, _)
dt_range(start, end, step) ==
  IF start <= end THEN <<start>> \o dt_range(start + step, end, step) ELSE <<>>

\* ts.strftime("%Y-%m-%d %H:%M")
Strftime(ts) == [date |-> "2025-03-10", hh |-> ts \div 60, mm |-> ts % 60]

\* a CSV cell holding a number, and the empty cell ""
Num(v) == [kind |-> "num", v |-> v]
Blank == [kind |-> "blank", v |-> 0]

\* [x for x in seq if x not in drop]
Without(seq, drop) == SelectSeq(seq, LAMBDA v : v \notin drop)

Elems(seq) == {seq[j] : j \in 1..Len(seq)}

\* ------------------------------------------------------------------------
\* State
\* ------------------------------------------------------------------------
VARIABLES
  stream,        \* which outcome of the random draws this behaviour is
  rng,           \* state of the random module
  pc,            \* position in the running function
  todo,          \* main: the calls still to make
  i,             \* position of the running (outer) loop
  k,             \* generate_bus_geojson: k, the point of the current bus
  t0,            \* generate_bus_geojson: t0, in seconds after midnight
  rows,          \* generate_traffic_csv: rows
  miss_indices,  \* generate_traffic_csv: miss_indices
  out_indices,   \* generate_traffic_csv: out_indices
  buses,         \* generate_bus_geojson: buses
  features,      \* generate_bus_geojson: features
  records,       \* generate_planning_txt: records
  files,         \* what was written below OUTDIR, by file name
  g,             \* generate_ttl.py: the graph g of the running mapper
  cur_row,       \* generate_ttl.py: row, the row of the current iteration
  added,         \* the triples the current iteration added to g
  raised,        \* the exception that left the mapper, "" when none did
  nrows          \* the rows of the table iterated so far

vars == <<stream, rng, pc, todo, i, k, t0, rows, miss_indices, out_indices,
          buses, features, records, files, g, cur_row, added, raised, nrows>>

generatorVars == <<stream, rng, todo, i, k, t0, rows, miss_indices, out_indices,
                   buses, features, records, files>>
mapperVars == <<g, cur_row, added, raised, nrows>>

trafficLocals == <<rows, miss_indices, out_indices>>
busLocals == <<k, t0, buses, features>>

\* ------------------------------------------------------------------------
\* generate_traffic_csv
\* ------------------------------------------------------------------------
timestamps == dt_range(TRAFFIC_START, TRAFFIC_END, TRAFFIC_STEP_MIN)

\* peak_strength in 1/100
zone_profile ==
  (Name("Z", 1) :> [base_speed |-> 52, base_vol |-> 140, peak_strength |-> 55]) @@
  (Name("Z", 2) :> [base_speed |-> 56, base_vol |-> 120, peak_strength |-> 40]) @@
  (Name("Z", 3) :> [base_speed |-> 58, base_vol |-> 110, peak_strength |-> 30]) @@
  (Name("Z", 4) :> [base_speed |-> 54, base_vol |-> 130, peak_strength |-> 35]) @@
  (Name("Z", 5) :> [base_speed |-> 60, base_vol |-> 90,  peak_strength |-> 20]) @@
  (Name("Z", 6) :> [base_speed |-> 50, base_vol |-> 150, peak_strength |-> 60]) @@
  (Name("Z", 7) :> [base_speed |-> 62, base_vol |-> 75,  peak_strength |-> 10]) @@
  (Name("Z", 8) :> [base_speed |-> 55, base_vol |-> 115, peak_strength |-> 33])

peak_center == 500
peak_sigma_minutes == 50

\* 1000 * exp(-(d ** 2) / (2 * peak_sigma_minutes ** 2)) for d = 0, 5, 10, ...
ExpTable ==
  <<1000, 995, 980, 956, 923, 882, 835, 783, 726, 667, 607, 546, 487, 430,
    375, 325, 278, 236, 198, 164, 135, 110, 89, 71, 56, 44, 34, 26, 20, 15,
    11, 8, 6, 4, 3, 2, 2, 1, 1>>

Abs(x) == IF x < 0 THEN -x ELSE x

\* peak_factor of a timestamp, in 1/1000
PeakFactor(ts) ==
  LET diff_min == Abs(ts - peak_center)
      n == (diff_min \div TRAFFIC_STEP_MIN) + 1
  IN IF n <= Len(ExpTable) THEN ExpTable[n] ELSE 0

\* speed of a row before rounding, in 1/1000 km/h; x is the noise draw
TrafficSpeed(prof, pf, x) ==
  clamp(prof.base_speed * 1000 - (prof.base_speed * prof.peak_strength * pf) \div 100
          + Uniform(x, -1500, 1500),
        8000, 80000)

\* volume of a row: int(clamp(volume, 20, 450))
TrafficVolume(prof, pf, x) ==
  clamp(prof.base_vol * 1000 + (prof.base_vol * 9 * prof.peak_strength * pf) \div 1000
          + Uniform(x, -8000, 8000),
        20000, 450000) \div 1000

\* occupancy of a row before rounding, in 1/100000
TrafficOcc(prof, pf, volume, x) ==
  clamp(18000 + volume * 200 + (prof.peak_strength * pf) \div 4
          + Uniform(x, -2000, 2000),
        5000, 99000)

\* the row appended for zone z at timestamp ts, drawing from x onwards
TrafficRow(s, x, z, ts) ==
  LET prof == zone_profile[ZONES[z]]
      pf == PeakFactor(ts)
      x2 == Advance(s, x)
      x3 == Advance(s, x2)
      volume == TrafficVolume(prof, pf, x2)
  IN [zone_id |-> ZONES[z],
      timestamp |-> Strftime(ts),
      average_speed_kmh |-> Num(Round(TrafficSpeed(prof, pf, x), 100)),
      traffic_volume |-> volume,
      occupancy_rate |-> Num(Round(TrafficOcc(prof, pf, volume, x3), 1000))]

TotalRows == Len(ZONES) * Len(timestamps)

\* round(total * TRAFFIC_MISSING_RATE) in place of int(...)
MissCountRounded(total) == (total * TRAFFIC_MISSING_RATE + 50) \div 100

\* int(total * TRAFFIC_MISSING_RATE), the rate being 0.03
MissCount(total) == (total * TRAFFIC_MISSING_RATE) \div 100

\* int(total * TRAFFIC_OUTLIER_RATE), the rate being 0.01
OutCount(total) == (total * TRAFFIC_OUTLIER_RATE) \div 100

\* [i for i in range(total) if i in miss_indices]
OutlierPopulationInverted(total, miss) == Without(Range(total), (0..(total - 1)) \ Elems(miss))

\* [i for i in range(total) if i not in miss_indices]
OutlierPopulation(total, miss) == Without(Range(total), Elems(miss))

\* both fields blanked in place of one of them
BlankBoth(s, x, row) ==
  [row EXCEPT !.average_speed_kmh = Blank, !.occupancy_rate = Blank]

\* the effect of the missing-value loop body on the row at index n
BlankOne(s, x, row) ==
  IF RandomLess(x, 6, 10)
  THEN [row EXCEPT !.average_speed_kmh = Blank]
  ELSE [row EXCEPT !.occupancy_rate = Blank]

SpeedOutliers == <<20, 45, 1200>>

\* round(random.uniform(1.01, 1.10), 2), in 1/100
OccOutlier(x) == Round(Uniform(x, 101000, 110000), 1000)

\* the effect of the outlier loop body on a row; two draws
OutlierOne(s, x, row) ==
  IF RandomLess(x, 5, 10)
  THEN [row EXCEPT !.average_speed_kmh = Num(Choice(Advance(s, x), SpeedOutliers))]
  ELSE [row EXCEPT !.occupancy_rate = Num(OccOutlier(Advance(s, x)))]

FileNames == {"traffic_data.csv", "bus_gps.geojson", "planning.txt", "zone_mapping.csv"}

NoFiles == [f \in FileNames |-> <<>>]

\* random.seed(SEED)
TrafficSeed ==
  /\ pc = "traffic_seed"
  /\ rng' = RandomSeed(rng, SEED)
  /\ rows' = <<>>
  /\ miss_indices' = <<>>
  /\ out_indices' = <<>>
  /\ i' = 0
  /\ pc' = "traffic_rows"
  /\ UNCHANGED <<mapperVars, stream, todo, busLocals, records, files>>

\* one iteration of the nested loop over ZONES and timestamps
TrafficAppendRow ==
  /\ pc = "traffic_rows"
  /\ i < TotalRows
  /\ LET z == (i \div Len(timestamps)) + 1
         ts == timestamps[(i % Len(timestamps)) + 1]
     IN rows' = Append(rows, TrafficRow(stream, rng, z, ts))
  /\ rng' = AdvanceBy(stream, rng, 3)
  /\ i' = i + 1
  /\ UNCHANGED <<mapperVars, stream, pc, todo, miss_indices, out_indices, busLocals, records, files>>

\* miss_indices = random.sample(range(total), miss_count)
TrafficSampleMissing ==
  /\ pc = "traffic_rows"
  /\ i = TotalRows
  /\ LET smp == Sample(stream, rng, Range(Len(rows)), MissCount(Len(rows)))
     IN /\ miss_indices' = smp.result
        /\ rng' = smp.rng
  /\ i' = 0
  /\ pc' = "traffic_missing"
  /\ UNCHANGED <<mapperVars, stream, todo, rows, out_indices, busLocals, records, files>>

\* one iteration of: for i in miss_indices
TrafficBlank ==
  /\ pc = "traffic_missing"
  /\ i < Len(miss_indices)
  /\ LET n == miss_indices[i + 1] + 1
     IN rows' = [rows EXCEPT ![n] = BlankOne(stream, rng, rows[n])]
  /\ rng' = Advance(stream, rng)
  /\ i' = i + 1
  /\ UNCHANGED <<mapperVars, stream, pc, todo, miss_indices, out_indices, busLocals, records, files>>

\* out_indices = random.sample([i for i in range(total) if i not in miss_indices], out_count)
TrafficSampleOutliers ==
  /\ pc = "traffic_missing"
  /\ i = Len(miss_indices)
  /\ LET smp == Sample(stream, rng, OutlierPopulation(Len(rows), miss_indices),
                       OutCount(Len(rows)))
     IN /\ out_indices' = smp.result
        /\ rng' = smp.rng
  /\ i' = 0
  /\ pc' = "traffic_outliers"
  /\ UNCHANGED <<mapperVars, stream, todo, rows, miss_indices, busLocals, records, files>>

\* one iteration of: for i in out_indices
TrafficOutlier ==
  /\ pc = "traffic_outliers"
  /\ i < Len(out_indices)
  /\ LET n == out_indices[i + 1] + 1
     IN rows' = [rows EXCEPT ![n] = OutlierOne(stream, rng, rows[n])]
  /\ rng' = AdvanceBy(stream, rng, 2)
  /\ i' = i + 1
  /\ UNCHANGED <<mapperVars, stream, pc, todo, miss_indices, out_indices, busLocals, records, files>>

\* write_csv(path, header, rows); return path, total
TrafficWrite ==
  /\ pc = "traffic_outliers"
  /\ i = Len(out_indices)
  /\ files' = [files EXCEPT !["traffic_data.csv"] = rows]
  /\ rows' = <<>>
  /\ miss_indices' = <<>>
  /\ out_indices' = <<>>
  /\ i' = 0
  /\ pc' = "main"
  /\ UNCHANGED <<mapperVars, stream, rng, todo, busLocals, records>>

\* ------------------------------------------------------------------------
\* generate_bus_geojson
\* ------------------------------------------------------------------------
NumLines == 8

lines == [n \in 1..NumLines |-> Name("L", n)]

line_zones ==
  (Name("L", 1) :> <<Name("Z", 1), Name("Z", 2), Name("Z", 4)>>) @@
  (Name("L", 2) :> <<Name("Z", 6), Name("Z", 1), Name("Z", 8)>>) @@
  (Name("L", 3) :> <<Name("Z", 3), Name("Z", 4), Name("Z", 5)>>) @@
  (Name("L", 4) :> <<Name("Z", 7), Name("Z", 5), Name("Z", 8)>>) @@
  (Name("L", 5) :> <<Name("Z", 2), Name("Z", 3), Name("Z", 6)>>) @@
  (Name("L", 6) :> <<Name("Z", 8), Name("Z", 4), Name("Z", 1)>>) @@
  (Name("L", 7) :> <<Name("Z", 5), Name("Z", 2), Name("Z", 7)>>) @@
  (Name("L", 8) :> <<Name("Z", 6), Name("Z", 3), Name("Z", 8)>>)

\* (lat, lon) centers, in 1/1000000 degree
zone_center ==
  (Name("Z", 1) :> <<33590000, -7620000>>) @@
  (Name("Z", 2) :> <<33600000, -7610000>>) @@
  (Name("Z", 3) :> <<33585000, -7605000>>) @@
  (Name("Z", 4) :> <<33575000, -7615000>>) @@
  (Name("Z", 5) :> <<33565000, -7600000>>) @@
  (Name("Z", 6) :> <<33610000, -7630000>>) @@
  (Name("Z", 7) :> <<33555000, -7625000>>) @@
  (Name("Z", 8) :> <<33595000, -7595000>>)

\* the zones tested by: z in ("Z1", "Z6")
CongestedZones == {Name("Z", 1), Name("Z", 6)}

\* f"BUS-{b:02d}"
BusId(b) == <<"BUS-">> \o TwoDigits(b)

\* JSON null
Null == [kind |-> "null", v |-> 0]

\* ts.strftime("%Y-%m-%d %H:%M:%S"), ts in seconds after midnight
StrftimeSec(ts) ==
  [date |-> "2025-03-10", hh |-> ts \div 3600, mm |-> (ts \div 60) % 60, ss |-> ts % 60]

\* base_delay left at 2 whatever the path
BaseDelayAlwaysLow(zones_path) == 2

\* base_delay of a bus, from its zones_path
BaseDelay(zones_path) ==
  IF Name("Z", 1) \in Elems(zones_path) \/ Name("Z", 6) \in Elems(zones_path) THEN 6 ELSE 2

\* seg = k % len(zones_path): the zone changes with every point
SegmentPerPoint(kk, zones_path) == kk % Len(zones_path)

\* seg = (k // max(1, (BUS_POINTS_PER_BUS // len(zones_path)))) % len(zones_path)
Segment(kk, zones_path) ==
  (kk \div Max(1, BUS_POINTS_PER_BUS \div Len(zones_path))) % Len(zones_path)

\* ZONES[seg] in place of zones_path[seg]
ZoneAtOfAllZones(kk, zones_path) == ZONES[Segment(kk, zones_path) + 1]

\* z = zones_path[seg]
ZoneAt(kk, zones_path) == zones_path[Segment(kk, zones_path) + 1]

\* peak_bonus: 3 between 07:45 and 09:00, ts in seconds after midnight
PeakBonus(ts) == IF 27900 <= ts /\ ts <= 32400 THEN 3 ELSE 0

\* delay of a point: int(clamp(delay, 0, 35)); x is the draw of the increment
BusDelay(x, z, base_delay, ts) ==
  clamp(base_delay + PeakBonus(ts)
          + (IF z \in CongestedZones THEN RandInt(x, 2, 7) ELSE RandInt(x, -1, 3)),
        0, 35)

\* delay_value: None when random.random() < BUS_MISSING_DELAY_RATE (0.02)
DelayValue(x, delay) ==
  IF RandomLess(x, BUS_MISSING_DELAY_RATE, 100) THEN Null ELSE Num(delay)

\* the property line_id of a point of a bus
PointLineId(bus) == bus.line_id

\* area_code = ZONE_TO_AREA_CODE[z]
PointAreaCode(z) == ZONE_TO_AREA_CODE[z]

\* One iteration of the loop over k: the feature appended for point kk of
\* bus, and the generator state after its draws.
BusPoint(s, x, bus, kk, start) ==
  LET zones_path == line_zones[bus.line_id]
      ts == start + BUS_TIME_STEP_SEC * kk
      z == ZoneAt(kk, zones_path)
      xlon == Advance(s, x)
      xspeed == Advance(s, xlon)
      congested == z \in CongestedZones
      xspeed2 == Advance(s, xspeed)
      xdelay == IF congested THEN Advance(s, xspeed2) ELSE xspeed2
      xmiss == Advance(s, xdelay)
      lat == zone_center[z][1] + Uniform(x, -2500, 2500)
      lon == zone_center[z][2] + Uniform(xlon, -2500, 2500)
      speed == IF congested THEN Uniform(xspeed2, 8000, 20000)
               ELSE Uniform(xspeed, 18000, 35000)
      delay == BusDelay(xdelay, z, BaseDelay(zones_path), ts)
  IN [feat |->
        [coordinates |-> <<lon, lat>>,
         bus_id |-> bus.bus_id,
         line_id |-> PointLineId(bus),
         area_code |-> PointAreaCode(z),
         timestamp |-> StrftimeSec(ts),
         delay_minutes |-> DelayValue(xmiss, delay),
         speed_kmh |-> Round(speed, 100)],
      rng |-> Advance(s, xmiss)]

\* random.seed(SEED + 1)
BusSeed ==
  /\ pc = "bus_seed"
  /\ rng' = RandomSeed(rng, SEED + 1)
  /\ buses' = <<>>
  /\ features' = <<>>
  /\ i' = 0
  /\ k' = 0
  /\ t0' = 0
  /\ pc' = "bus_create"
  /\ UNCHANGED <<mapperVars, stream, todo, trafficLocals, records, files>>

\* one iteration of: for b in range(1, BUS_COUNT + 1)
BusCreate ==
  /\ pc = "bus_create"
  /\ i < BUS_COUNT
  /\ buses' = Append(buses, [bus_id |-> BusId(i + 1), line_id |-> Choice(rng, lines)])
  /\ rng' = Advance(stream, rng)
  /\ i' = i + 1
  /\ UNCHANGED <<mapperVars, stream, pc, todo, k, t0, features, trafficLocals, records, files>>

\* the loop over range(1, BUS_COUNT + 1) ends; the loop over buses starts
BusCreated ==
  /\ pc = "bus_create"
  /\ i = BUS_COUNT
  /\ i' = 0
  /\ pc' = "bus_next"
  /\ UNCHANGED <<mapperVars, stream, rng, todo, busLocals, trafficLocals, records, files>>

\* the head of one iteration of: for bus_id, line_id in buses
BusBegin ==
  /\ pc = "bus_next"
  /\ i < Len(buses)
  /\ t0' = (TRAFFIC_START + RandInt(rng, 0, 30)) * 60
  /\ rng' = Advance(stream, rng)
  /\ k' = 0
  /\ pc' = "bus_points"
  /\ UNCHANGED <<mapperVars, stream, todo, i, buses, features, trafficLocals, records, files>>

\* one iteration of: for k in range(BUS_POINTS_PER_BUS)
BusAppendPoint ==
  /\ pc = "bus_points"
  /\ k < BUS_POINTS_PER_BUS
  /\ LET p == BusPoint(stream, rng, buses[i + 1], k, t0)
     IN /\ features' = Append(features, p.feat)
        /\ rng' = p.rng
  /\ k' = k + 1
  /\ UNCHANGED <<mapperVars, stream, pc, todo, i, t0, buses, trafficLocals, records, files>>

\* the loop over k ends: on to the next bus
BusEnd ==
  /\ pc = "bus_points"
  /\ k = BUS_POINTS_PER_BUS
  /\ i' = i + 1
  /\ pc' = "bus_next"
  /\ UNCHANGED <<mapperVars, stream, rng, todo, busLocals, trafficLocals, records, files>>

\* json.dump(geojson, f); return path, len(features)
BusWrite ==
  /\ pc = "bus_next"
  /\ i = Len(buses)
  /\ files' = [files EXCEPT !["bus_gps.geojson"] = features]
  /\ buses' = <<>>
  /\ features' = <<>>
  /\ i' = 0
  /\ k' = 0
  /\ t0' = 0
  /\ pc' = "main"
  /\ UNCHANGED <<mapperVars, stream, rng, todo, trafficLocals, records>>

\* ------------------------------------------------------------------------
\* generate_planning_txt
\* ------------------------------------------------------------------------
day_types == <<"weekday", "weekend">>

NumTimes == 36

\* (base + timedelta(minutes=10 * i)).strftime("%H:%M") for i in range(0, 36)
times ==
  [n \in 1..NumTimes |->
     [hh |-> (TRAFFIC_START + 10 * (n - 1)) \div 60, mm |-> (TRAFFIC_START + 10 * (n - 1)) % 60]]

freq_options == <<6, 8, 10, 12, 15>>

\* hh = int(scheduled_time.split(":")[0]); peak = (7 <= hh <= 9)
IsPeakTime(scheduled_time) == 7 <= scheduled_time.hh /\ scheduled_time.hh <= 9

\* service_zone = ZONE_TO_SERVICE_ZONE[z]
RecordServiceZone(z) == ZONE_TO_SERVICE_ZONE[z]

\* One iteration of the while loop: the line appended, from six draws.
PlanningRecord(s, x) ==
  LET xz == Advance(s, x)
      xday == Advance(s, xz)
      xtime == Advance(s, xday)
      xfreq == Advance(s, xtime)
      xsep == Advance(s, xfreq)
      day_type == Choice(xday, day_types)
      scheduled_time == Choice(xtime, times)
      frequency == IF day_type = "weekday" /\ IsPeakTime(scheduled_time)
                   THEN Choice(xfreq, <<6, 8, 10>>)
                   ELSE Choice(xfreq, freq_options)
  IN [sep |-> IF RandomLess(xsep, 85, 100) THEN " | " ELSE " ; ",
      line_id |-> Choice(x, lines),
      service_zone |-> RecordServiceZone(Choice(xz, ZONES)),
      day_type |-> day_type,
      scheduled_time |-> scheduled_time,
      frequency_min |-> frequency]

\* the records after one more iteration of the while loop
AppendRecord(recs, rec) == Append(recs, rec)

\* len(records) <= PLANNING_LINES in place of len(records) < PLANNING_LINES
PlanningContinuesOffByOne(recs) == Len(recs) <= PLANNING_LINES

\* the test of: while len(records) < PLANNING_LINES
PlanningContinues(recs) == Len(recs) < PLANNING_LINES

\* random.seed(SEED + 2)
PlanSeed ==
  /\ pc = "plan_seed"
  /\ rng' = RandomSeed(rng, SEED + 2)
  /\ records' = <<>>
  /\ pc' = "plan_loop"
  /\ UNCHANGED <<mapperVars, stream, todo, i, busLocals, trafficLocals, files>>

\* one iteration of: while len(records) < PLANNING_LINES
PlanAppend ==
  /\ pc = "plan_loop"
  /\ PlanningContinues(records)
  /\ records' = AppendRecord(records, PlanningRecord(stream, rng))
  /\ rng' = AdvanceBy(stream, rng, 6)
  /\ UNCHANGED <<mapperVars, stream, pc, todo, i, busLocals, trafficLocals, files>>

\* the loop ends; the records are written one per line; return path, len(records)
PlanWrite ==
  /\ pc = "plan_loop"
  /\ ~PlanningContinues(records)
  /\ files' = [files EXCEPT !["planning.txt"] = records]
  /\ records' = <<>>
  /\ pc' = "main"
  /\ UNCHANGED <<mapperVars, stream, rng, todo, i, busLocals, trafficLocals>>

\* ------------------------------------------------------------------------
\* generate_zone_mapping
\* ------------------------------------------------------------------------
ZoneMappingRows ==
  [n \in 1..Len(ZONES) |->
     [zone_id |-> ZONES[n],
      area_code |-> ZONE_TO_AREA_CODE[ZONES[n]],
      service_zone |-> ZONE_TO_SERVICE_ZONE[ZONES[n]]]]

GenerateZoneMapping ==
  /\ pc = "mapping"
  /\ files' = [files EXCEPT !["zone_mapping.csv"] = ZoneMappingRows]
  /\ pc' = "main"
  /\ UNCHANGED <<mapperVars, stream, rng, todo, i, busLocals, trafficLocals, records>>

\* ------------------------------------------------------------------------
\* main
\* ------------------------------------------------------------------------
Generators == {"traffic", "bus", "planning", "mapping"}

Entry(f) ==
  CASE f = "traffic" -> "traffic_seed"
    [] f = "bus" -> "bus_seed"
    [] f = "planning" -> "plan_seed"
    [] f = "mapping" -> "mapping"

\* what the interpreter seeded the random module with before main runs
EntropyStates == {0, 1, 4711, RngMod - 1}

Init ==
  /\ stream \in Streams
  /\ g = {}
  /\ cur_row = <<>>
  /\ added = {}
  /\ raised = ""
  /\ nrows = 0
  /\ rng \in EntropyStates
  /\ pc = "main"
  /\ todo = <<"traffic", "bus", "planning", "mapping">>
  /\ i = 0
  /\ k = 0
  /\ t0 = 0
  /\ rows = <<>>
  /\ miss_indices = <<>>
  /\ out_indices = <<>>
  /\ buses = <<>>
  /\ features = <<>>
  /\ records = <<>>
  /\ files = NoFiles

\* main makes its next call
MainCall ==
  /\ pc = "main"
  /\ todo # <<>>
  /\ pc' = Entry(Head(todo))
  /\ todo' = Tail(todo)
  /\ UNCHANGED <<mapperVars, stream, rng, i, busLocals, trafficLocals, records, files>>

GeneratorStep ==
  \/ TrafficSeed
  \/ TrafficAppendRow
  \/ TrafficSampleMissing
  \/ TrafficBlank
  \/ TrafficSampleOutliers
  \/ TrafficOutlier
  \/ TrafficWrite
  \/ BusSeed
  \/ BusCreate
  \/ BusCreated
  \/ BusBegin
  \/ BusAppendPoint
  \/ BusEnd
  \/ BusWrite
  \/ PlanSeed
  \/ PlanAppend
  \/ PlanWrite
  \/ GenerateZoneMapping

Next == MainCall \/ GeneratorStep

Spec == Init /\ [][Next]_vars

\* ------------------------------------------------------------------------
\* generate_ttl.py: values
\* ------------------------------------------------------------------------
\* Text is a sequence of one-character strings.  A cell of a table read by
\* pandas.read_csv is a float NaN (an empty field), a str, a float, an int or
\* a bool; text is what str(x) gives for it.
Cell(kind, text) == [kind |-> kind, text |-> text]

NaN == Cell("nan", <<"n", "a", "n">>)
StrCell(text) == Cell("str", text)
FloatCell(text) == Cell("float", text)
IntCell(text) == Cell("int", text)
BoolCell(text) == Cell("bool", text)

\* pd.isna(x), pd.notna(x)
IsNa(x) == x.kind = "nan"
NotNa(x) == ~IsNa(x)

\* x == ""
IsEmptyStr(x) == x.kind = "str" /\ x.text = <<>>

\* str(x), and f"{x}"
StrOf(x) == x.text

DigitValue ==
  ("0" :> 0) @@ ("1" :> 1) @@ ("2" :> 2) @@ ("3" :> 3) @@ ("4" :> 4) @@
  ("5" :> 5) @@ ("6" :> 6) @@ ("7" :> 7) @@ ("8" :> 8) @@ ("9" :> 9)

Digits == DOMAIN DigitValue

LowerOf ==
  ("A" :> "a") @@ ("B" :> "b") @@ ("C" :> "c") @@ ("D" :> "d") @@ ("E" :> "e") @@
  ("F" :> "f") @@ ("G" :> "g") @@ ("H" :> "h") @@ ("I" :> "i") @@ ("J" :> "j") @@
  ("K" :> "k") @@ ("L" :> "l") @@ ("M" :> "m") @@ ("N" :> "n") @@ ("O" :> "o") @@
  ("P" :> "p") @@ ("Q" :> "q") @@ ("R" :> "r") @@ ("S" :> "s") @@ ("T" :> "t") @@
  ("U" :> "u") @@ ("V" :> "v") @@ ("W" :> "w") @@ ("X" :> "x") @@ ("Y" :> "y") @@
  ("Z" :> "z")

UpperLetters == DOMAIN LowerOf
LowerLetters == {LowerOf[c] : c \in UpperLetters}

\* s.lower()
Lower(t) == [n \in 1..Len(t) |-> IF t[n] \in UpperLetters THEN LowerOf[t[n]] ELSE t[n]]

\* s.strip(): leading and trailing blanks removed
RECURSIVE LStrip(_)
LStrip(t) == IF t # <<>> /\ Head(t) = " " THEN LStrip(Tail(t)) ELSE t

RECURSIVE RStrip(_)
RStrip(t) == IF t # <<>> /\ t[Len(t)] = " " THEN RStrip(SubSeq(t, 1, Len(t) - 1)) ELSE t

Strip(t) == RStrip(LStrip(t))

\* s.replace(a, b) for one-character a and b
Replace(t, a, b) == [n \in 1..Len(t) |-> IF t[n] = a THEN b ELSE t[n]]

\* the value of a run of digits
RECURSIVE DigitsValue(_)
DigitsValue(t) ==
  IF t = <<>> THEN 0 ELSE 10 * DigitsValue(SubSeq(t, 1, Len(t) - 1)) + DigitValue[t[Len(t)]]

AllDigits(t) == \A n \in 1..Len(t) : t[n] \in Digits

\* The result of a conversion: a value, in 1/1000, or infinite; or the
\* exception it raised.
Value(milli) == [tag |-> "value", milli |-> milli, inf |-> FALSE, exc |-> ""]
Infinite == [tag |-> "value", milli |-> 0, inf |-> TRUE, exc |-> ""]
Raised(exc) == [tag |-> "raised", milli |-> 0, inf |-> FALSE, exc |-> exc]
None == [tag |-> "none", milli |-> 0, inf |-> FALSE, exc |-> ""]
True == [tag |-> "value", milli |-> 1000, inf |-> FALSE, exc |-> ""]
False == [tag |-> "value", milli |-> 0, inf |-> FALSE, exc |-> ""]

\* float(text) of an unsigned decimal literal: digits, or digits "." digits
ParseDecimal(t) ==
  LET dots == {n \in 1..Len(t) : t[n] = "."}
  IN IF dots = {}
     THEN IF t # <<>> /\ AllDigits(t) THEN Value(1000 * DigitsValue(t))
          ELSE Raised("ValueError")
     ELSE IF Cardinality(dots) = 1
     THEN LET d == CHOOSE n \in dots : TRUE
              whole == SubSeq(t, 1, d - 1)
              frac == SubSeq(t, d + 1, Len(t))
              frac3 == SubSeq(frac \o <<"0", "0", "0">>, 1, 3)
          IN IF Len(t) > 1 /\ AllDigits(whole) /\ AllDigits(frac)
             THEN Value(1000 * DigitsValue(whole) + DigitsValue(frac3))
             ELSE Raised("ValueError")
     ELSE Raised("ValueError")

\* float(text): blanks around the literal are allowed, a sign, "inf"
ParseFloat(text) ==
  LET t == Strip(text)
      negative == t # <<>> /\ Head(t) = "-"
      u == IF t # <<>> /\ Head(t) \in {"-", "+"} THEN Tail(t) ELSE t
  IN IF Lower(u) \in {<<"i", "n", "f">>, <<"i", "n", "f", "i", "n", "i", "t", "y">>} THEN Infinite
     ELSE LET r == ParseDecimal(u)
          IN IF r.tag = "value" /\ negative THEN Value(-r.milli) ELSE r

\* float(x)
FloatOf(x) ==
  CASE x.kind = "str" -> ParseFloat(x.text)
    [] x.kind = "bool" -> IF x.text = <<"T", "r", "u", "e">> THEN Value(1000) ELSE Value(0)
    [] OTHER -> ParseFloat(x.text)

\* safe_float(x)
safe_float(x) ==
  IF NotNa(x) /\ ~IsEmptyStr(x)
  THEN IF FloatOf(x).tag = "raised" THEN None ELSE FloatOf(x)
  ELSE None

\* int(f) of a float: truncation towards zero; OverflowError for an infinity
IntOfFloat(f) ==
  IF f.inf THEN Raised("OverflowError")
  ELSE IF f.milli >= 0 THEN Value(1000 * (f.milli \div 1000))
  ELSE Value(-1000 * ((-f.milli) \div 1000))

\* safe_int(x): ValueError and TypeError are caught, nothing else is
safe_int(x) ==
  IF NotNa(x) /\ ~IsEmptyStr(x)
  THEN IF FloatOf(x).tag = "raised" THEN None ELSE IntOfFloat(FloatOf(x))
  ELSE None

TrueTokens == {<<"t", "r", "u", "e">>, <<"1">>, <<"y", "e", "s">>, <<"t">>}

\* safe_bool(x)
safe_bool(x) ==
  IF IsNa(x) THEN None
  ELSE IF Lower(Strip(StrOf(x))) \in TrueTokens THEN True ELSE False

\* ------------------------------------------------------------------------
\* generate_ttl.py: nodes and URIs
\* ------------------------------------------------------------------------
\* A node of a triple: a URI, or a literal with its datatype.
Node(node, text, val, dt) == [node |-> node, text |-> text, val |-> val, dt |-> dt]

NoUri == Node("none", <<>>, None, "")
EX(text) == Node("uri", <<"ex:">> \o text, None, "")
MOB(text) == Node("uri", <<"mob:">> \o text, None, "")
Term(name) == Node("uri", <<name>>, None, "")

\* Literal(x) of a cell, Literal(v) of a converted value
LiteralOf(x, dt) == Node("literal", StrOf(x), None, dt)
LiteralValue(v, dt) == Node("literal", <<>>, v, dt)
LiteralText(text, dt) == Node("literal", text, None, dt)

\* the characters urllib.parse.quote(s, safe="") leaves as they are
Unreserved == UpperLetters \cup LowerLetters \cup Digits \cup {"_", ".", "-", "~"}

PercentCode ==
  (" " :> <<"%", "2", "0">>) @@ ("/" :> <<"%", "2", "F">>) @@ (":" :> <<"%", "3", "A">>) @@
  ("+" :> <<"%", "2", "B">>) @@ ("#" :> <<"%", "2", "3">>) @@ ("%" :> <<"%", "2", "5">>)

\* urllib.parse.quote(t, safe="")
RECURSIVE Quote(_)
Quote(t) ==
  IF t = <<>> THEN <<>>
  ELSE (IF Head(t) \in Unreserved THEN <<Head(t)>> ELSE PercentCode[Head(t)]) \o Quote(Tail(t))

\* str(value).replace(" ", "_").replace(":", "-").replace(".", "-"), then quoted
Slug(text) == Quote(Replace(Replace(Replace(text, " ", "_"), ":", "-"), ".", "-"))

\* to_uri(base, value)
to_uri(base, value) ==
  IF IsNa(value) \/ IsEmptyStr(value) THEN NoUri
  ELSE EX(<<base, "/">> \o Slug(StrOf(value)))

\* not uri
IsNone(uri) == uri.node = "none"

Triple(s, p, o) == <<s, p, o>>

\* the triples of an optional property: added when the value is not None
Optional(s, p, v, dt) == IF v.tag = "value" THEN {Triple(s, p, LiteralValue(v, dt))} ELSE {}

\* what one iteration of a loop over rows does: the triples it adds to g, and
\* the exception that ends it, if any
Outcome(triples, exc) == [added |-> triples, exc |-> exc]

\* ------------------------------------------------------------------------
\* generate_ttl.py: the mappers, one row at a time
\* ------------------------------------------------------------------------
\* the body of the loop of process_zone_mapping
ZoneMappingRow(row) ==
  LET zone_uri == to_uri("zone", row.ZONE_ID)
  IN IF IsNone(zone_uri) THEN Outcome({}, "")
     ELSE Outcome({Triple(zone_uri, "rdf:type", MOB(<<"ServiceZone">>)),
                   Triple(zone_uri, "mob:hasAreaCode", LiteralOf(row.AREA_CODE, "")),
                   Triple(zone_uri, "rdfs:label", LiteralOf(row.SERVICE_ZONE, ""))}, "")

\* the body of the loop of process_planning_clean
PlanningRow(row) ==
  LET schedule_id == StrOf(row.LINE_ID) \o <<"_">> \o StrOf(row.ZONE_ID) \o <<"_">>
                       \o StrOf(row.DAY_TYPE) \o <<"_">> \o StrOf(row.SCHEDULED_TIME)
      schedule_uri == to_uri("schedule", StrCell(schedule_id))
      route_uri == to_uri("route", row.LINE_ID)
      zone_uri == to_uri("zone", row.ZONE_ID)
      required == {Triple(schedule_uri, "rdf:type", MOB(<<"Schedule">>)),
                   Triple(schedule_uri, "mob:belongsToRoute", route_uri),
                   Triple(schedule_uri, "mob:appliesToZone", zone_uri),
                   Triple(schedule_uri, "mob:dayType", LiteralOf(row.DAY_TYPE, "")),
                   Triple(schedule_uri, "mob:scheduledTime",
                          LiteralOf(row.SCHEDULED_TIME, "xsd:time"))}
      freq == safe_int(row.FREQUENCY_MIN)
      is_peak == safe_bool(row.IS_PEAK_SCHEDULE)
  IN IF IsNone(schedule_uri) \/ IsNone(route_uri) \/ IsNone(zone_uri) THEN Outcome({}, "")
     ELSE IF freq.tag = "raised" THEN Outcome(required, freq.exc)
     ELSE Outcome(required
                    \cup Optional(schedule_uri, "mob:frequencyMinutes", freq, "xsd:integer")
                    \cup Optional(schedule_uri, "mob:isPeakSchedule", is_peak, "xsd:boolean"),
                  "")

\* the body of the loop of process_traffic_clean
TrafficCleanRow(row) ==
  LET obs_id == StrOf(row.ZONE_ID) \o <<"_">> \o StrOf(row.TIMESTAMP)
      obs_uri == to_uri("traffic_obs", StrCell(obs_id))
      zone_uri == to_uri("zone", row.ZONE_ID)
      required == {Triple(obs_uri, "rdf:type", MOB(<<"TrafficObservation">>)),
                   Triple(obs_uri, "mob:observedInZone", zone_uri),
                   Triple(obs_uri, "mob:observedAt", LiteralOf(row.TIMESTAMP, "xsd:dateTime"))}
      speed == safe_float(row.AVERAGE_SPEED_KMH)
      speed_triples ==
        IF speed.tag = "value"
        THEN {Triple(obs_uri, "mob:averageSpeed", LiteralValue(speed, "xsd:float")),
              Triple(obs_uri, "mob:speedUnit", Term("unit:KiloM-PER-HR"))}
        ELSE {}
      vol == safe_int(row.TRAFFIC_VOLUME)
      occ == safe_float(row.OCCUPANCY_RATE)
      level ==
        IF NotNa(row.CONGESTION_LEVEL) /\ ~IsEmptyStr(row.CONGESTION_LEVEL)
        THEN {Triple(obs_uri, "mob:congestionLevel", MOB(StrOf(row.CONGESTION_LEVEL)))}
        ELSE {}
      is_cong == safe_bool(row.IS_CONGESTED)
  IN IF IsNone(obs_uri) \/ IsNone(zone_uri) THEN Outcome({}, "")
     ELSE IF vol.tag = "raised" THEN Outcome(required \cup speed_triples, vol.exc)
     ELSE Outcome(required \cup speed_triples
                    \cup Optional(obs_uri, "mob:trafficVolume", vol, "xsd:integer")
                    \cup Optional(obs_uri, "mob:occupancyRate", occ, "xsd:float")
                    \cup level
                    \cup Optional(obs_uri, "mob:isCongested", is_cong, "xsd:boolean"),
                  "")

\* row["EVENT_TIME"].replace(" ", "T") + "Z": only a str has replace
EventTimeIso(x) ==
  IF x.kind = "str" THEN [exc |-> "", text |-> Replace(x.text, " ", "T") \o <<"Z">>]
  ELSE [exc |-> "AttributeError", text |-> <<>>]

\* f"POINT({lon} {lat})", the floats printed as the cells print
Wkt(row) ==
  <<"P", "O", "I", "N", "T", "(">> \o StrOf(row.LONGITUDE) \o <<" ">> \o StrOf(row.LATITUDE)
    \o <<")">>

\* the body of the loop of process_bus_gps_clean
BusGpsRow(row) ==
  LET event_time_iso == EventTimeIso(row.EVENT_TIME)
      trip_id == StrCell(StrOf(row.BUS_ID) \o <<"_">> \o event_time_iso.text)
      trip_uri == to_uri("trip", trip_id)
      vehicle_uri == to_uri("vehicle", row.BUS_ID)
      route_uri == to_uri("route", row.LINE_ID)
      zone_uri == to_uri("zone", row.ZONE_ID)
      required == {Triple(trip_uri, "rdf:type", MOB(<<"Trip">>)),
                   Triple(trip_uri, "mob:hasVehicle", vehicle_uri),
                   Triple(trip_uri, "mob:operatesOnRoute", route_uri),
                   Triple(trip_uri, "mob:observedInZone", zone_uri),
                   Triple(trip_uri, "mob:recordedAt",
                          LiteralText(event_time_iso.text, "xsd:dateTime")),
                   Triple(vehicle_uri, "rdf:type", MOB(<<"Vehicle">>)),
                   Triple(vehicle_uri, "rdfs:label", LiteralOf(row.BUS_ID, ""))}
      lat == safe_float(row.LATITUDE)
      lon == safe_float(row.LONGITUDE)
      point_uri == to_uri("point", trip_id)
      location ==
        IF lat.tag = "value" /\ lon.tag = "value"
        THEN {Triple(trip_uri, "mob:hasLocation", point_uri),
              Triple(point_uri, "rdf:type", Term("geo:Point")),
              Triple(point_uri, "geo:asWKT", LiteralText(Wkt(row), "geo:wktLiteral"))}
        ELSE {}
      speed == safe_float(row.SPEED_KMH)
      speed_triples ==
        IF speed.tag = "value"
        THEN {Triple(trip_uri, "mob:instantaneousSpeed", LiteralValue(speed, "xsd:float")),
              Triple(trip_uri, "mob:speedUnit", Term("unit:KiloM-PER-HR"))}
        ELSE {}
      is_delayed == safe_bool(row.IS_DELAYED)
      delay_min == safe_float(row.DELAY_MINUTES)
      event_uri == to_uri("delay_event", trip_id)
      category ==
        IF NotNa(row.DELAY_CATEGORY) /\ ~IsEmptyStr(row.DELAY_CATEGORY)
        THEN {Triple(event_uri, "mob:delayCategory", MOB(StrOf(row.DELAY_CATEGORY)))}
        ELSE {}
      delay_event ==
        IF delay_min.tag = "value" /\ (delay_min.inf \/ delay_min.milli > 0)
        THEN {Triple(trip_uri, "mob:hasDelayEvent", event_uri),
              Triple(event_uri, "rdf:type", MOB(<<"DelayEvent">>)),
              Triple(event_uri, "mob:delayMinutes", LiteralValue(delay_min, "xsd:float")),
              Triple(event_uri, "mob:delayUnit", Term("unit:MIN"))} \cup category
        ELSE {}
  IN IF event_time_iso.exc # "" THEN Outcome({}, event_time_iso.exc)
     ELSE IF IsNone(trip_uri) \/ IsNone(vehicle_uri) \/ IsNone(route_uri) \/ IsNone(zone_uri)
     THEN Outcome({}, "")
     ELSE Outcome(required \cup location \cup speed_triples
                    \cup Optional(trip_uri, "mob:isDelayed", is_delayed, "xsd:boolean")
                    \cup delay_event,
                  "")

\* the body of the loop of process_bus_performance_hourly
PerformanceRow(row) ==
  LET perf_id == StrOf(row.LINE_ID) \o <<"_">> \o StrOf(row.ZONE_ID) \o <<"_">>
                   \o StrOf(row.EVENT_DATE) \o <<"_">> \o StrOf(row.EVENT_HOUR)
      perf_uri == to_uri("performance", StrCell(perf_id))
      route_uri == to_uri("route", row.LINE_ID)
      zone_uri == to_uri("zone", row.ZONE_ID)
      required == {Triple(perf_uri, "rdf:type", MOB(<<"AggregatedPerformance">>)),
                   Triple(perf_uri, "mob:route", route_uri),
                   Triple(perf_uri, "mob:zone", zone_uri),
                   Triple(perf_uri, "mob:performanceDate", LiteralOf(row.EVENT_DATE, "xsd:date"))}
      hour == safe_int(row.EVENT_HOUR)
  IN IF IsNone(perf_uri) \/ IsNone(route_uri) \/ IsNone(zone_uri) THEN Outcome({}, "")
     ELSE IF hour.tag = "raised" THEN Outcome(required, hour.exc)
     ELSE Outcome(required
                    \cup Optional(perf_uri, "mob:performanceHour", hour, "xsd:integer")
                    \cup Optional(perf_uri, "mob:averageDelayMinutes",
                                  safe_float(row.AVG_DELAY_MINUTES), "xsd:float")
                    \cup Optional(perf_uri, "mob:maxDelayMinutes",
                                  safe_float(row.MAX_DELAY_MINUTES), "xsd:float")
                    \cup Optional(perf_uri, "mob:averageSpeedKmh",
                                  safe_float(row.AVG_SPEED_KMH), "xsd:float")
                    \cup Optional(perf_uri, "mob:delayRatePercent",
                                  safe_float(row.DELAY_RATE_PCT), "xsd:float"),
                  "")

\* ------------------------------------------------------------------------
\* generate_ttl.py: the tables read
\* ------------------------------------------------------------------------
\* The rows a table is drawn from: a row with every field well-formed, that
\* row with one field replaced by each of the other cells, the row with all
\* but the fields of keys empty, and the row with every field empty.
OtherCells ==
  {NaN, StrCell(<<"a", "b", "c">>), StrCell(<<" ", "Y", "e", "s", " ">>), StrCell(<<"1", "2", ".", "5">>), FloatCell(<<"i", "n", "f">>), IntCell(<<"0">>)}

RowsFrom(base, keys) ==
  {base} \cup {[base EXCEPT ![f] = c] : f \in DOMAIN base, c \in OtherCells}
    \cup {[f \in DOMAIN base |-> IF f \in keys THEN base[f] ELSE NaN]}
    \cup {[f \in DOMAIN base |-> NaN]}

ZoneMappingBase ==
  [ZONE_ID |-> StrCell(<<"Z", "1">>), AREA_CODE |-> StrCell(<<"A", "0", "1">>),
   SERVICE_ZONE |-> StrCell(<<"S", "e", "r", "v", "i", "c", "e", "Z", "o", "n", "e", "-", "Z", "1">>)]

PlanningBase ==
  [LINE_ID |-> StrCell(<<"L", "2">>), ZONE_ID |-> StrCell(<<"Z", "1">>), DAY_TYPE |-> StrCell(<<"w", "e", "e", "k", "d", "a", "y">>),
   SCHEDULED_TIME |-> StrCell(<<"0", "7", ":", "3", "0">>), FREQUENCY_MIN |-> IntCell(<<"1", "0">>),
   IS_PEAK_SCHEDULE |-> BoolCell(<<"T", "r", "u", "e">>)]

TrafficBase ==
  [ZONE_ID |-> StrCell(<<"Z", "1">>), TIMESTAMP |-> StrCell(<<"2", "0", "2", "5", "-", "0", "3", "-", "1", "0", " ", "0", "7", ":", "0", "0">>),
   AVERAGE_SPEED_KMH |-> FloatCell(<<"4", "1", ".", "5">>), TRAFFIC_VOLUME |-> IntCell(<<"1", "4", "0">>),
   OCCUPANCY_RATE |-> FloatCell(<<"0", ".", "6", "2">>), CONGESTION_LEVEL |-> StrCell(<<"H", "E", "A", "V", "Y">>),
   IS_CONGESTED |-> BoolCell(<<"T", "r", "u", "e">>)]

BusGpsBase ==
  [BUS_ID |-> StrCell(<<"B", "U", "S", "-", "0", "1">>), LINE_ID |-> StrCell(<<"L", "2">>), ZONE_ID |-> StrCell(<<"Z", "6">>),
   EVENT_TIME |-> StrCell(<<"2", "0", "2", "5", "-", "0", "3", "-", "1", "0", " ", "0", "7", ":", "1", "2", ":", "0", "0">>), LATITUDE |-> FloatCell(<<"3", "3", ".", "6", "1">>),
   LONGITUDE |-> FloatCell(<<"-", "7", ".", "6", "3">>), SPEED_KMH |-> FloatCell(<<"1", "2", ".", "4">>),
   IS_DELAYED |-> BoolCell(<<"T", "r", "u", "e">>), DELAY_MINUTES |-> FloatCell(<<"9", ".", "0">>),
   DELAY_CATEGORY |-> StrCell(<<"M", "O", "D", "E", "R", "A", "T", "E", "_", "D", "E", "L", "A", "Y">>)]

PerformanceBase ==
  [LINE_ID |-> StrCell(<<"L", "2">>), ZONE_ID |-> StrCell(<<"Z", "6">>), EVENT_DATE |-> StrCell(<<"2", "0", "2", "5", "-", "0", "3", "-", "1", "0">>),
   EVENT_HOUR |-> IntCell(<<"8">>), AVG_DELAY_MINUTES |-> FloatCell(<<"7", ".", "5">>),
   MAX_DELAY_MINUTES |-> FloatCell(<<"1", "6", ".", "0">>), AVG_SPEED_KMH |-> FloatCell(<<"1", "4", ".", "2">>),
   DELAY_RATE_PCT |-> FloatCell(<<"6", "2", ".", "5">>)]

\* the fields each mapper builds the URIs of a row from
IdentifierFields(m) ==
  CASE m = "process_zone_mapping" -> {"ZONE_ID"}
    [] m = "process_planning_clean" -> {"LINE_ID", "ZONE_ID", "DAY_TYPE", "SCHEDULED_TIME"}
    [] m = "process_traffic_clean" -> {"ZONE_ID", "TIMESTAMP"}
    [] m = "process_bus_gps_clean" -> {"BUS_ID", "LINE_ID", "ZONE_ID", "EVENT_TIME"}
    [] m = "process_bus_performance_hourly" -> {"LINE_ID", "ZONE_ID", "EVENT_DATE", "EVENT_HOUR"}

\* rows of TRAFFIC_CLEAN with an unparseable AVERAGE_SPEED_KMH and one more
\* field replaced
TrafficRowsBadSpeed ==
  {[TrafficBase EXCEPT !.AVERAGE_SPEED_KMH = StrCell(<<"a", "b", "c">>), ![f] = c] :
     f \in DOMAIN TrafficBase \ {"ZONE_ID", "TIMESTAMP", "AVERAGE_SPEED_KMH"},
     c \in OtherCells}

\* rows of PLANNING_CLEAN that differ from the well-formed row in the
\* SCHEDULED_TIME alone: 08:30, 07-30 and 07.30 in place of 07:30
PlanningRowsOtherTime ==
  {[PlanningBase EXCEPT !.SCHEDULED_TIME = StrCell(t)] :
     t \in {<<"0", "8", ":", "3", "0">>, <<"0", "7", "-", "3", "0">>, <<"0", "7", ".", "3", "0">>}}

\* rows of TRAFFIC_CLEAN that differ from the well-formed row in the
\* TIMESTAMP alone: 07:05, and 07-00 in place of 07:00
TrafficRowsOtherTimestamp ==
  {[TrafficBase EXCEPT !.TIMESTAMP = StrCell([TrafficBase.TIMESTAMP.text EXCEPT ![16] = "5"])],
   [TrafficBase EXCEPT !.TIMESTAMP = StrCell([TrafficBase.TIMESTAMP.text EXCEPT ![14] = "-"])]}

Mappers ==
  {"process_zone_mapping", "process_planning_clean", "process_traffic_clean",
   "process_bus_gps_clean", "process_bus_performance_hourly"}

\* ------------------------------------------------------------------------
\* generate_ttl.py: the loops over the rows of a table
\* ------------------------------------------------------------------------
InitMapper ==
  /\ stream = 0
  /\ rng = 0
  /\ pc \in Mappers
  /\ todo = <<>>
  /\ i = 0
  /\ k = 0
  /\ t0 = 0
  /\ rows = <<>>
  /\ miss_indices = <<>>
  /\ out_indices = <<>>
  /\ buses = <<>>
  /\ features = <<>>
  /\ records = <<>>
  /\ files = NoFiles
  /\ g = {}
  /\ cur_row = <<>>
  /\ added = {}
  /\ raised = ""
  /\ nrows = 0

\* One iteration of: for _, row in df.iterrows().  An exception ends the
\* mapper: no graph is returned.
Iterate(r, out) ==
  /\ raised = ""
  /\ nrows < MaxRows
  /\ cur_row' = r
  /\ added' = out.added
  /\ nrows' = nrows + 1
  /\ raised' = out.exc
  /\ g' = IF out.exc = "" THEN g \cup out.added ELSE {}
  /\ UNCHANGED <<pc, generatorVars>>

ProcessZoneMapping ==
  /\ pc = "process_zone_mapping"
  /\ \E r \in RowsFrom(ZoneMappingBase, IdentifierFields(pc)) : Iterate(r, ZoneMappingRow(r))

ProcessPlanningClean ==
  /\ pc = "process_planning_clean"
  /\ \E r \in RowsFrom(PlanningBase, IdentifierFields(pc)) \cup PlanningRowsOtherTime : Iterate(r, PlanningRow(r))

ProcessTrafficClean ==
  /\ pc = "process_traffic_clean"
  /\ \E r \in RowsFrom(TrafficBase, IdentifierFields(pc)) \cup TrafficRowsBadSpeed
                \cup TrafficRowsOtherTimestamp : Iterate(r, TrafficCleanRow(r))

ProcessBusGpsClean ==
  /\ pc = "process_bus_gps_clean"
  /\ \E r \in RowsFrom(BusGpsBase, IdentifierFields(pc)) : Iterate(r, BusGpsRow(r))

ProcessBusPerformanceHourly ==
  /\ pc = "process_bus_performance_hourly"
  /\ \E r \in RowsFrom(PerformanceBase, IdentifierFields(pc)) : Iterate(r, PerformanceRow(r))

\* the table has no more rows: return g
MapperReturn ==
  /\ pc \in Mappers
  /\ raised = ""
  /\ pc' = "returned"
  /\ UNCHANGED <<generatorVars, mapperVars>>

NextMapper ==
  \/ ProcessZoneMapping
  \/ ProcessPlanningClean
  \/ ProcessTrafficClean
  \/ ProcessBusGpsClean
  \/ ProcessBusPerformanceHourly
  \/ MapperReturn

SpecMapper == InitMapper /\ [][NextMapper]_vars

\* The program run twice in one interpreter, and traffic generated twice with
\* nothing, the bus generator, the planning generator or all of them between.
RerunScripts ==
  {<<"traffic", "traffic">>,
   <<"traffic", "bus", "traffic">>,
   <<"traffic", "planning", "traffic">>,
   <<"traffic", "bus", "planning", "mapping", "traffic", "bus", "planning", "mapping">>}

InitRerun ==
  /\ stream \in Streams
  /\ g = {}
  /\ cur_row = <<>>
  /\ added = {}
  /\ raised = ""
  /\ nrows = 0
  /\ rng \in EntropyStates
  /\ pc = "main"
  /\ todo \in RerunScripts
  /\ i = 0
  /\ k = 0
  /\ t0 = 0
  /\ rows = <<>>
  /\ miss_indices = <<>>
  /\ out_indices = <<>>
  /\ buses = <<>>
  /\ features = <<>>
  /\ records = <<>>
  /\ files = NoFiles

SpecRerun == InitRerun /\ [][Next]_vars

\* The program runs on: a sequential program takes its next step.
FairSpec == Init /\ [][Next]_vars /\ WF_vars(Next)

\* ------------------------------------------------------------------------
\* Properties
\* ------------------------------------------------------------------------
InTraffic == pc \in {"traffic_rows", "traffic_missing", "traffic_outliers"}

TrafficReady == pc = "traffic_outliers" /\ i = Len(out_indices)

NoRepeat(seq) == Cardinality(Elems(seq)) = Len(seq)

\* n is floor(total * pct / 100)
IsFloorOfRate(n, total, pct) == 100 * n <= pct * total /\ pct * total < 100 * (n + 1)

\* C1: in generate_traffic_csv the number of rows chosen for missing-value
\* injection is floor(total_rows * 0.03), the number chosen for outlier
\* injection is floor(total_rows * 0.01), no index is repeated within either
\* list, and no index is in both.
C1_SampleCounts ==
  /\ pc \in {"traffic_missing", "traffic_outliers"} =>
       /\ IsFloorOfRate(Len(miss_indices), Len(rows), 3)
       /\ NoRepeat(miss_indices)
       /\ Elems(miss_indices) \subseteq 0..(Len(rows) - 1)
  /\ pc = "traffic_outliers" =>
       /\ IsFloorOfRate(Len(out_indices), Len(rows), 1)
       /\ NoRepeat(out_indices)
       /\ Elems(out_indices) \subseteq 0..(Len(rows) - 1)
       /\ Elems(miss_indices) \cap Elems(out_indices) = {}

C1_Witness ==
  /\ TrafficReady
  /\ Len(rows) = 552
  /\ Len(miss_indices) = 16
  /\ Len(out_indices) = 5

NormalOcc(c) == c.kind = "num" /\ 5 <= c.v /\ c.v <= 99
OutlierOcc(c) == c.kind = "num" /\ c.v > 100

\* C2: every occupancy_rate cell is blank (only at an index of the missing
\* list), a value in [0.05, 0.99], or a value above 1.0 (only at an index of
\* the outlier list); no row is subjected to both injections; and the rows
\* written to traffic_data.csv have cells of these three forms only.
C2_OccupancyCells ==
  /\ InTraffic =>
       LET miss == Elems(miss_indices)
           out == Elems(out_indices)
       IN \A n \in 1..Len(rows) :
            LET c == rows[n].occupancy_rate
            IN /\ ~((n - 1) \in miss /\ (n - 1) \in out)
               /\ \/ c.kind = "blank" /\ (n - 1) \in miss
                  \/ NormalOcc(c)
                  \/ OutlierOcc(c) /\ (n - 1) \in out
  /\ pc = "main" =>
       \A n \in 1..Len(files["traffic_data.csv"]) :
         LET c == files["traffic_data.csv"][n].occupancy_rate
         IN c.kind = "blank" \/ NormalOcc(c) \/ OutlierOcc(c)

C2_Witness ==
  /\ TrafficReady
  /\ \E n \in 1..Len(rows) : rows[n].occupancy_rate.kind = "blank"
  /\ \E n \in 1..Len(rows) : OutlierOcc(rows[n].occupancy_rate)
  /\ \E n \in 1..Len(rows) : NormalOcc(rows[n].occupancy_rate)

\* the zones a synonym decodes to, through the inverse of a synonym table
Decode(table, code) == {z \in DOMAIN table : table[z] = code}

\* a point of a bus on a line: its area_code decodes to one zone, on the path
PointOnPath(f, line_id) ==
  /\ f.line_id = line_id
  /\ Cardinality(Decode(ZONE_TO_AREA_CODE, f.area_code)) = 1
  /\ Decode(ZONE_TO_AREA_CODE, f.area_code) \subseteq Elems(line_zones[line_id])

\* the bus that point n of a list of features belongs to, counted from 1
BusOf(n) == ((n - 1) \div BUS_POINTS_PER_BUS) + 1

\* C7: the area_code of every generated point of a bus decodes, through the
\* inverse of ZONE_TO_AREA_CODE, to a zone of the zone path of the line
\* assigned to that bus, and every point of a bus carries the one line chosen
\* for that bus.
C7_PointsOnLinePath ==
  /\ (pc = "bus_points" /\ features # <<>>) =>
       /\ features[Len(features)].bus_id = buses[BusOf(Len(features))].bus_id
       /\ PointOnPath(features[Len(features)], buses[BusOf(Len(features))].line_id)
  /\ pc = "bus_next" =>
       \A n \in 1..Len(features) :
         /\ features[n].bus_id = buses[BusOf(n)].bus_id
         /\ PointOnPath(features[n], buses[BusOf(n)].line_id)
  /\ pc = "main" =>
       LET out == files["bus_gps.geojson"]
       IN \A n \in 1..Len(out) :
            LET first == out[(BusOf(n) - 1) * BUS_POINTS_PER_BUS + 1]
            IN /\ out[n].bus_id = first.bus_id
               /\ PointOnPath(out[n], first.line_id)

C7_Witness ==
  /\ pc = "main"
  /\ Len(files["bus_gps.geojson"]) = BUS_COUNT * BUS_POINTS_PER_BUS
  /\ \E n \in 1..Len(files["bus_gps.geojson"]) :
       files["bus_gps.geojson"][n].line_id # files["bus_gps.geojson"][1].line_id

\* C8: generate_planning_txt terminates and writes exactly PLANNING_LINES
\* records: the loop never holds more than PLANNING_LINES records, every
\* iteration appends exactly one record, and the run ends with a planning.txt
\* of exactly PLANNING_LINES lines.
C8_PlanningCount ==
  /\ [](Len(records) <= PLANNING_LINES)
  /\ [][pc = "plan_loop" /\ pc' = "plan_loop" => Len(records') = Len(records) + 1]_vars
  /\ [][pc = "plan_loop" /\ pc' # "plan_loop" =>
          Len(records) = PLANNING_LINES /\ files'["planning.txt"] = records]_vars
  /\ <>(pc = "main" /\ todo = <<>> /\ Len(files["planning.txt"]) = PLANNING_LINES)

C8_Witness ==
  /\ pc = "main"
  /\ Len(files["planning.txt"]) = 180

\* C9: ZONE_TO_AREA_CODE and ZONE_TO_SERVICE_ZONE are injective over ZONES; the
\* area_code of every bus point and the service_zone of every planning record
\* decode to exactly one zone, which zone_mapping.csv lists with the same
\* synonyms and which is a zone_id of the traffic table.
C9_SynonymBijection ==
  /\ \A a, b \in Elems(ZONES) :
       /\ ZONE_TO_AREA_CODE[a] = ZONE_TO_AREA_CODE[b] => a = b
       /\ ZONE_TO_SERVICE_ZONE[a] = ZONE_TO_SERVICE_ZONE[b] => a = b
  /\ pc = "main" =>
       LET traffic_zones == {files["traffic_data.csv"][n].zone_id :
                               n \in 1..Len(files["traffic_data.csv"])}
           mapping == Elems(files["zone_mapping.csv"])
           Consistent(zs) ==
             /\ Cardinality(zs) = 1
             /\ files["traffic_data.csv"] # <<>> => zs \subseteq traffic_zones
             /\ files["zone_mapping.csv"] # <<>> =>
                  \A z \in zs :
                    {m \in mapping : m.zone_id = z} =
                      {[zone_id |-> z, area_code |-> ZONE_TO_AREA_CODE[z],
                        service_zone |-> ZONE_TO_SERVICE_ZONE[z]]}
       IN /\ \A n \in 1..Len(files["bus_gps.geojson"]) :
               /\ Consistent(Decode(ZONE_TO_AREA_CODE, files["bus_gps.geojson"][n].area_code))
               /\ files["zone_mapping.csv"] # <<>> =>
                    Cardinality({m \in mapping :
                       m.area_code = files["bus_gps.geojson"][n].area_code}) = 1
          /\ \A n \in 1..Len(files["planning.txt"]) :
               /\ Consistent(Decode(ZONE_TO_SERVICE_ZONE, files["planning.txt"][n].service_zone))
               /\ files["zone_mapping.csv"] # <<>> =>
                    Cardinality({m \in mapping :
                       m.service_zone = files["planning.txt"][n].service_zone}) = 1

C9_Witness ==
  /\ pc = "main"
  /\ todo = <<>>
  /\ \A f \in FileNames : files[f] # <<>>
  /\ {files["planning.txt"][n].service_zone : n \in 1..Len(files["planning.txt"])}
       = {ZONE_TO_SERVICE_ZONE[z] : z \in Elems(ZONES)}

\* C10: generate_traffic_csv re-seeds the random module with SEED at entry,
\* so a second run produces the rows the first run wrote to traffic_data.csv,
\* whatever state the random module was left in before either run.
C10_TrafficReproducible ==
  /\ (pc = "traffic_rows" /\ i = 0) => rng = Seed(SEED)
  /\ (TrafficReady /\ files["traffic_data.csv"] # <<>>) => rows = files["traffic_data.csv"]

C10_Witness ==
  /\ TrafficReady
  /\ files["traffic_data.csv"] # <<>>
  /\ files["bus_gps.geojson"] # <<>>
  /\ files["planning.txt"] # <<>>
  /\ rows = files["traffic_data.csv"]

Processing(m) == pc = m /\ nrows > 0

Predicates(triples) == {t[2] : t \in triples}

\* C3: in every mapper, a row in which a field of the primary key of the
\* entity is blank (ZONE_ID, LINE_ID, BUS_ID, and every component of the
\* composite key of the subject URI) contributes zero triples to the graph.
C3_BlankKeyNoTriples ==
  \A m \in Mappers :
    (Processing(m) /\ \E f \in IdentifierFields(m) : IsNa(cur_row[f])) => added = {}

\* C4: whatever the fields of a row hold, the mapper processes the row and
\* goes on to the next without an exception reaching the caller.
C4_NoExceptionReachesCaller == raised = ""

BooleanFields ==
  {[mapper |-> "process_planning_clean", field |-> "IS_PEAK_SCHEDULE",
    base |-> PlanningBase, predicate |-> "mob:isPeakSchedule"],
   [mapper |-> "process_traffic_clean", field |-> "IS_CONGESTED",
    base |-> TrafficBase, predicate |-> "mob:isCongested"],
   [mapper |-> "process_bus_gps_clean", field |-> "IS_DELAYED",
    base |-> BusGpsBase, predicate |-> "mob:isDelayed"]}

FalseTokens == {<<"f", "a", "l", "s", "e">>, <<"0">>, <<"n", "o">>, <<"f">>}

\* present, and none of the tokens read as true or as false
NotABoolean(x) == NotNa(x) /\ Lower(Strip(StrOf(x))) \notin TrueTokens \cup FalseTokens

\* C5: when the boolean field of an otherwise valid row holds a value that
\* is present but is no boolean token, the mapper omits the triple of that
\* field (isPeakSchedule, isCongested, isDelayed) for the row.
C5_BadBooleanOmitted ==
  \A b \in BooleanFields :
    (/\ Processing(b.mapper)
     /\ cur_row = [b.base EXCEPT ![b.field] = cur_row[b.field]]
     /\ NotABoolean(cur_row[b.field]))
      => b.predicate \notin Predicates(added)

\* blank, or text that is no number
Unparseable(x) ==
  \/ IsNa(x)
  \/ /\ x.kind = "str"
     /\ \E n \in 1..Len(x.text) : x.text[n] \in UpperLetters \cup LowerLetters
     /\ Lower(Strip(x.text)) # <<"i", "n", "f">>

\* a number, or text that reads as one
Parseable(x) == NotNa(x) /\ ~Unparseable(x)

TrafficCase ==
  /\ Processing("process_traffic_clean")
  /\ NotNa(cur_row.ZONE_ID)
  /\ NotNa(cur_row.TIMESTAMP)
  /\ Unparseable(cur_row.AVERAGE_SPEED_KMH)

\* C6: in process_traffic_clean a row with resolvable ZONE_ID and TIMESTAMP
\* whose AVERAGE_SPEED_KMH is unparseable or blank yields one subject with the
\* rdf:type TrafficObservation, observedInZone and observedAt triples and with
\* neither an averageSpeed nor a speedUnit triple, and every other optional
\* field of the row is mapped if and only if it holds a value.
C6_BadSpeedOmitted ==
  TrafficCase =>
    /\ \E s \in {t[1] : t \in added} :
         /\ Triple(s, "rdf:type", MOB(<<"TrafficObservation">>)) \in added
         /\ \E t \in added : t[1] = s /\ t[2] = "mob:observedInZone"
         /\ \E t \in added : t[1] = s /\ t[2] = "mob:observedAt"
         /\ \A t \in added : t[1] = s
    /\ "mob:averageSpeed" \notin Predicates(added)
    /\ "mob:speedUnit" \notin Predicates(added)
    /\ "mob:trafficVolume" \in Predicates(added) <=> Parseable(cur_row.TRAFFIC_VOLUME)
    /\ "mob:occupancyRate" \in Predicates(added) <=> Parseable(cur_row.OCCUPANCY_RATE)
    /\ "mob:congestionLevel" \in Predicates(added) <=> NotNa(cur_row.CONGESTION_LEVEL)
    /\ "mob:isCongested" \in Predicates(added) <=> NotNa(cur_row.IS_CONGESTED)

\* C6 for the rows that no exception cuts short
C6_BadSpeedOmittedUnlessRaised == raised = "" => C6_BadSpeedOmitted

\* the points of bus b in a list of features, point k (from 0) at position k + 1
PointsOfBus(out, b) ==
  SubSeq(out, (b - 1) * BUS_POINTS_PER_BUS + 1, b * BUS_POINTS_PER_BUS)

\* The points of one bus follow the path of its line in contiguous segments:
\* point k lies in zone path[(k div (points div len)) mod len], the quotient
\* never reaches len, every zone of the path gets points div len consecutive
\* points, and a zone that the bus has left does not come back.
SegmentsInPathOrder(pts) ==
  LET path == line_zones[pts[1].line_id]
      per == BUS_POINTS_PER_BUS \div Len(path)
  IN /\ \A n \in 1..Len(pts) :
          /\ (n - 1) \div per < Len(path)
          /\ pts[n].area_code = ZONE_TO_AREA_CODE[path[(((n - 1) \div per) % Len(path)) + 1]]
     /\ \A s \in 1..Len(path) :
          {n \in 1..Len(pts) : pts[n].area_code = ZONE_TO_AREA_CODE[path[s]]}
            = ((s - 1) * per + 1)..(s * per)
     /\ \A n \in 1..(Len(pts) - 1) :
          pts[n].area_code # pts[n + 1].area_code =>
            \A l \in (n + 1)..Len(pts) : pts[l].area_code # pts[n].area_code

\* C11: for every bus the zone of point k is
\* zones_path[(k div (BUS_POINTS_PER_BUS div len(zones_path))) mod len(zones_path)];
\* with 120 points and paths of 3 zones each zone gets exactly 40 consecutive
\* points in path order, the modulo never wraps and no zone of the path is
\* revisited after the bus has left it.
C11_ContiguousSegments ==
  /\ \A l \in DOMAIN line_zones :
       Len(line_zones[l]) = 3 /\ BUS_POINTS_PER_BUS \div Len(line_zones[l]) = 40
  /\ pc = "bus_next" =>
       \A b \in 1..(Len(features) \div BUS_POINTS_PER_BUS) :
         SegmentsInPathOrder(PointsOfBus(features, b))
  /\ pc = "main" =>
       \A b \in 1..(Len(files["bus_gps.geojson"]) \div BUS_POINTS_PER_BUS) :
         SegmentsInPathOrder(PointsOfBus(files["bus_gps.geojson"], b))

C11_Witness ==
  /\ pc = "main"
  /\ Len(files["bus_gps.geojson"]) = BUS_COUNT * BUS_POINTS_PER_BUS
  /\ \E b \in 1..BUS_COUNT :
       LET pts == PointsOfBus(files["bus_gps.geojson"], b)
       IN /\ pts[40].area_code # pts[41].area_code
          /\ pts[80].area_code # pts[81].area_code
          /\ pts[1].area_code # pts[120].area_code

\* a speed that normal generation gives: [8, 80], in tenths
NormalSpeed(c) == c.kind = "num" /\ 80 <= c.v /\ c.v <= 800

\* the out-of-range values: a speed of 2.0, 4.5 or 120.0, an occupancy in
\* [1.01, 1.10]
SentinelSpeed(c) == c.kind = "num" /\ c.v \in {20, 45, 1200}
SentinelOcc(c) == c.kind = "num" /\ 101 <= c.v /\ c.v <= 110

\* rows a and b agree but for the one field f
DiffersOnlyIn(a, b, f) ==
  /\ a[f] # b[f]
  /\ \A h \in DOMAIN a : h # f => a[h] = b[h]

\* what a row looks like once the injection step is over, n its index
InjectedRow(r, n) ==
  LET speed == r.average_speed_kmh
      occ == r.occupancy_rate
  IN /\ n \in Elems(miss_indices) =>
          \/ speed = Blank /\ NormalOcc(occ)
          \/ NormalSpeed(speed) /\ occ = Blank
     /\ n \in Elems(out_indices) =>
          \/ SentinelSpeed(speed) /\ ~NormalSpeed(speed) /\ NormalOcc(occ)
          \/ NormalSpeed(speed) /\ SentinelOcc(occ) /\ ~NormalOcc(occ)
     /\ n \notin Elems(miss_indices) \cup Elems(out_indices) =>
          NormalSpeed(speed) /\ NormalOcc(occ)

\* a step of one of the two injection loops: it changes one cell, the speed
\* or the occupancy, of the one row at the index the loop is at, a row that
\* no step changed before
InjectionStepFrame ==
  (pc \in {"traffic_missing", "traffic_outliers"} /\ rows' # rows /\ rows' # <<>>) =>
    /\ Len(rows') = Len(rows)
    /\ \E n \in 1..Len(rows) :
         /\ (n - 1) = (IF pc = "traffic_missing" THEN miss_indices ELSE out_indices)[i + 1]
         /\ \A m \in 1..Len(rows) : m # n => rows'[m] = rows[m]
         /\ \/ DiffersOnlyIn(rows[n], rows'[n], "average_speed_kmh")
            \/ DiffersOnlyIn(rows[n], rows'[n], "occupancy_rate")
         /\ NormalSpeed(rows[n].average_speed_kmh)
         /\ NormalOcc(rows[n].occupancy_rate)

\* every iteration of the two loops changes its row
InjectionStepActs ==
  (pc \in {"traffic_missing", "traffic_outliers"} /\ pc' = pc) => (rows' # rows)

\* C12: the imperfection-injection step of generate_traffic_csv changes at
\* most one cell per row, average_speed_kmh or occupancy_rate: every step of
\* the two loops changes one of these two cells of one row, at an index of the
\* list it iterates, and leaves zone_id, timestamp and traffic_volume and
\* every other row as they were; once the step is over a row of the missing
\* list has exactly one of the two blank and the other kept, a row of the
\* outlier list has exactly one of the two out of range (speed 2.0, 4.5 or
\* 120.0, occupancy in [1.01, 1.10]), and the other rows are untouched.
C12_InjectionFrame ==
  /\ [][InjectionStepFrame]_vars
  /\ [][InjectionStepActs]_vars
  /\ [](pc = "traffic_rows" =>
          \A n \in 1..Len(rows) :
            NormalSpeed(rows[n].average_speed_kmh) /\ NormalOcc(rows[n].occupancy_rate))
  /\ [](TrafficReady => \A n \in 1..Len(rows) : InjectedRow(rows[n], n - 1))

C12_Witness ==
  /\ TrafficReady
  /\ \E n \in Elems(miss_indices) : rows[n + 1].average_speed_kmh = Blank
  /\ \E n \in Elems(miss_indices) : rows[n + 1].occupancy_rate = Blank
  /\ \E n \in Elems(out_indices) : SentinelSpeed(rows[n + 1].average_speed_kmh)
  /\ \E n \in Elems(out_indices) : SentinelOcc(rows[n + 1].occupancy_rate)

\* the point lies in Z1 or Z6, by its area_code
InCongestedZone(f) == \E z \in CongestedZones : f.area_code = ZONE_TO_AREA_CODE[z]

\* the features generated so far and the features written
PointsSoFar ==
  IF pc = "main" THEN files["bus_gps.geojson"]
  ELSE IF pc = "bus_next" THEN features
  ELSE IF pc = "bus_points" /\ features # <<>> THEN <<features[Len(features)]>>
  ELSE <<>>

\* a delay_minutes that is null or an integer of 1..16, of 8..16 in Z1 and Z6
DelayInRange(f) ==
  LET d == f.delay_minutes
  IN /\ d.kind \in {"null", "num"}
     /\ d.kind = "num" => 1 <= d.v /\ d.v <= 16
     /\ (d.kind = "num" /\ InCongestedZone(f)) => d.v >= 8

\* C13 as stated: every non-null delay_minutes is an integer of 1..16 (so the
\* clamp to [0, 35] changes no value and no 0 is emitted), and every point in
\* a congested zone (Z1 or Z6) has a delay that is not null and is at least 8.
C13_CongestedDelayNeverNull ==
  \A n \in 1..Len(PointsSoFar) :
    /\ DelayInRange(PointsSoFar[n])
    /\ InCongestedZone(PointsSoFar[n]) => PointsSoFar[n].delay_minutes.kind = "num"

\* C13, amended: every non-null delay_minutes is an integer of 1..16 (so the
\* clamp to [0, 35] changes no value and no 0 is emitted), and every non-null
\* delay of a point in a congested zone (Z1 or Z6) is at least 8; the delay
\* of a point in a congested zone may be null like that of any other point.
C13_DelayRange == \A n \in 1..Len(PointsSoFar) : DelayInRange(PointsSoFar[n])

C13_Witness ==
  /\ pc = "main"
  /\ \E n \in 1..Len(PointsSoFar) :
       InCongestedZone(PointsSoFar[n]) /\ PointsSoFar[n].delay_minutes = Num(16)
  /\ \E n \in 1..Len(PointsSoFar) :
       InCongestedZone(PointsSoFar[n]) /\ PointsSoFar[n].delay_minutes = Num(8)
  /\ \E n \in 1..Len(PointsSoFar) : PointsSoFar[n].delay_minutes = Num(1)
  /\ \E n \in 1..Len(PointsSoFar) :
       InCongestedZone(PointsSoFar[n]) /\ PointsSoFar[n].delay_minutes = Null

\* the class of the entity a mapper emits one of per row, and the fields of
\* the composite natural key its subject URI is built from
EntityOf(m) ==
  CASE m = "process_zone_mapping" -> [class |-> <<"ServiceZone">>, key |-> {"ZONE_ID"}]
    [] m = "process_planning_clean" ->
         [class |-> <<"Schedule">>, key |-> {"LINE_ID", "ZONE_ID", "DAY_TYPE", "SCHEDULED_TIME"}]
    [] m = "process_traffic_clean" ->
         [class |-> <<"TrafficObservation">>, key |-> {"ZONE_ID", "TIMESTAMP"}]
    [] m = "process_bus_gps_clean" -> [class |-> <<"Trip">>, key |-> {"BUS_ID", "EVENT_TIME"}]
    [] m = "process_bus_performance_hourly" ->
         [class |-> <<"AggregatedPerformance">>, key |-> {"LINE_ID", "ZONE_ID", "EVENT_DATE", "EVENT_HOUR"}]

\* the composite natural key of a row
NaturalKey(m, r) == [f \in EntityOf(m).key |-> r[f]]

\* the subjects that the triples of one row type as the entity of the mapper
SubjectsOf(m, triples) ==
  {t[1] : t \in {u \in triples : u[2] = "rdf:type" /\ u[3] = MOB(EntityOf(m).class)}}

\* two rows, one mapped after the other, whose natural keys differ and no
\* field of which is blank, get different subjects
DistinctKeysDistinctSubjects ==
  \A m \in Mappers :
    (/\ pc = m
     /\ nrows >= 1
     /\ nrows' = nrows + 1
     /\ added # {}
     /\ added' # {}
     /\ \A f \in EntityOf(m).key : NotNa(cur_row[f]) /\ NotNa(cur_row'[f])
     /\ NaturalKey(m, cur_row) # NaturalKey(m, cur_row'))
      => SubjectsOf(m, added) \cap SubjectsOf(m, added') = {}

\* C14: for two rows whose composite natural keys differ, to_uri returns
\* different subject URIs, so that the triples of two distinct entities are
\* never merged under one subject of the output graph.
C14_UniqueSubjects == [][DistinctKeysDistinctSubjects]_vars

====
